---- MODULE Spec2Model ----
(***************************************************************************)
(* State-machine model of the DNS forwarding proxy of proxy/proxy.go:      *)
(* the lifecycle (Start, Stop), the request pipeline (handleDNSRequest,    *)
(* Resolve, respond) and the upstream selector (chooseUpstream,            *)
(* calculateUpstreamWeights).                                              *)
(*                                                                         *)
(* Go's int is 64 bits wide and int(defaultTimeout) is 10^10, beyond the   *)
(* integers of the model checker, so a Go int n >= 0 is written as the     *)
(* pair [hi, lo] with n = hi * Millisecond + lo and 0 <= lo < Millisecond. *)
(* A nil error is the string "nil", a nil pointer the record NilRef.        *)
(***************************************************************************)
EXTENDS Integers, Sequences, FiniteSets, TLC

\* ------------------------------------------------------------------------
\* Bounds of the model.

\* Socket faults (a failing bind or close) the environment may inject.
MaxFaults == 2
\* Requests accepted in one run.
MaxServed == 2
\* Candidate DNS64 resolvers of one prefix discovery.
MaxCandidates == 3
\* Calls of Start, Stop and Addr in one run of the locking model.
MaxCalls == 3
\* UDP datagrams, and requests on the TCP connection, in one such run.
MaxPackets == 1
\* Round trips recorded in one run of the selector alone.
MaxRecords == 4
\* Exchanges recorded per upstream in the selector-feedback scenario.
FeedbackRounds == 50

\* ------------------------------------------------------------------------
\* Go integers (time.Duration counts nanoseconds).

\* time.Millisecond, in nanoseconds.
Millisecond == 1000000
\* time.Second / time.Millisecond.
MillisPerSecond == 1000

IntOf(n) == [hi |-> n \div Millisecond, lo |-> n % Millisecond]
Zero == IntOf(0)
One == IntOf(1)

IntAdd(a, b) ==
    LET l == a.lo + b.lo
    IN  [hi |-> a.hi + b.hi + (l \div Millisecond), lo |-> l % Millisecond]

\* a - b for a >= b.
IntSub(a, b) ==
    IF a.lo >= b.lo
      THEN [hi |-> a.hi - b.hi, lo |-> a.lo - b.lo]
      ELSE [hi |-> a.hi - b.hi - 1, lo |-> a.lo + Millisecond - b.lo]

\* Go's a / 2 on a non-negative int.
IntHalf(a) ==
    [hi |-> a.hi \div 2, lo |-> ((a.hi % 2) * Millisecond + a.lo) \div 2]

IntLess(a, b) == a.hi < b.hi \/ (a.hi = b.hi /\ a.lo < b.lo)
IntLeq(a, b) == a = b \/ IntLess(a, b)

\* MaxGoroutines of the embedding's configuration: the bound on concurrent
\* upstream exchanges.
MaxGoroutines == 1

\* const defaultTimeout = 10 * time.Second, as the int that Resolve casts it to.
defaultTimeout == [hi |-> 10 * MillisPerSecond, lo |-> 0]

\* ------------------------------------------------------------------------
\* Protocol tags.

ProtoUDP == "udp"
ProtoTCP == "tcp"
ProtoTLS == "tls"
ProtoHTTPS == "https"
Protos == {ProtoUDP, ProtoTCP, ProtoTLS, ProtoHTTPS}

\* A nil error.
Nil == "nil"
\* A nil pointer to a message, an upstream or the cache.
NilRef == [nil |-> TRUE]

VARIABLES
    cfg,                \* Proxy.Config
    started,            \* Proxy.started
    udpListen,          \* Proxy.udpListen is non-nil
    tcpListen,          \* Proxy.tcpListen is non-nil
    tlsListen,          \* Proxy.tlsListen is non-nil
    httpsListen,        \* Proxy.httpsListen is non-nil
    httpsServer,        \* Proxy.httpsServer is non-nil
    cache,              \* Proxy.cache: NilRef, or the cached questions
    upstreamsRtt,       \* Proxy.upstreamsRtt, indexed from 0
    upstreamsWeighted,  \* Proxy.upstreamsWeighted, indexed from 0
    ratelimitBuckets,   \* tokens left per client IP in the current second
    openSockets,        \* per protocol, the listening sockets the process holds
    faults,             \* socket faults the environment may still inject
    ret,                \* the last call of Start or Stop and what it returned
    ctx,                \* the DNSContext of each request task
    served,             \* requests accepted so far
    rounds,             \* per upstream, the round trips recorded directly
    conns,              \* per connection task, the TCP or TLS connection it serves
    httpResp,           \* the last HTTP error ServeHTTP wrote, and to which request
    nat64,              \* the NAT64 prefix discovery: probes, results, outcome
    dns64,              \* the last DNS64 synthesis: prefix, A address, AAAA address
    mu,                 \* Proxy's RWMutex: the tasks holding its write and read side
    rttLock,            \* Proxy.rttLock: the tasks holding it
    task,               \* per goroutine of the locking model, where it stands
    sockGen             \* the Start calls that have bound the listeners so far

listenVars == <<udpListen, tcpListen, tlsListen, httpsListen, httpsServer, openSockets>>
statsVars == <<upstreamsRtt, upstreamsWeighted>>
proxyVars == <<started, listenVars, cache, statsVars>>
reqVars == <<ctx, served, ratelimitBuckets>>
lockVars == <<mu, rttLock, task, sockGen>>
extVars == <<conns, httpResp, nat64, dns64, lockVars>>
vars == <<cfg, proxyVars, reqVars, faults, ret, rounds, extVars>>

\* ------------------------------------------------------------------------
\* Configuration (type Config). A listen address, the TLS config, the fallback
\* and the handler are modelled by whether they are non-nil, the upstream list
\* by its length.

Upstreams == 0 .. (cfg.Upstreams - 1)

ListenAddr(proto) ==
    CASE proto = ProtoUDP -> cfg.UDPListenAddr
      [] proto = ProtoTCP -> cfg.TCPListenAddr
      [] proto = ProtoTLS -> cfg.TLSListenAddr
      [] proto = ProtoHTTPS -> cfg.HTTPSListenAddr

Listener(proto) ==
    CASE proto = ProtoUDP -> udpListen
      [] proto = ProtoTCP -> tcpListen
      [] proto = ProtoTLS -> tlsListen
      [] proto = ProtoHTTPS -> httpsListen

\* ------------------------------------------------------------------------
\* Start.

\* validateConfig without the check of the upstream list.
validateConfigNoUpstreamCheck ==
    IF started THEN "server has been already started"
    ELSE IF ~cfg.UDPListenAddr /\ ~cfg.TCPListenAddr /\ ~cfg.TLSListenAddr
            /\ ~cfg.HTTPSListenAddr THEN "no listen address specified"
    ELSE IF cfg.TLSListenAddr /\ ~cfg.TLSConfig
      THEN "cannot create a TLS listener without TLS config"
    ELSE IF cfg.HTTPSListenAddr /\ ~cfg.TLSConfig
      THEN "cannot create an HTTPS listener without TLS config"
    ELSE Nil

validateConfig ==
    IF started THEN "server has been already started"
    ELSE IF ~cfg.UDPListenAddr /\ ~cfg.TCPListenAddr /\ ~cfg.TLSListenAddr
            /\ ~cfg.HTTPSListenAddr THEN "no listen address specified"
    ELSE IF cfg.TLSListenAddr /\ ~cfg.TLSConfig
      THEN "cannot create a TLS listener without TLS config"
    ELSE IF cfg.HTTPSListenAddr /\ ~cfg.TLSConfig
      THEN "cannot create an HTTPS listener without TLS config"
    ELSE IF cfg.Upstreams = 0 THEN "no upstreams specified"
    ELSE Nil

\* The order in which startListeners binds the sockets.
BindOrder == <<ProtoUDP, ProtoTCP, ProtoTLS, ProtoHTTPS>>
\* The order in which Stop closes them.
CloseOrder == <<ProtoTCP, ProtoUDP, ProtoTLS, ProtoHTTPS>>

Pos(order, proto) == CHOOSE i \in 1 .. Len(order) : order[i] = proto

\* The sockets startListeners binds when the bind of failAt fails ("none": no
\* bind fails): those configured and bound before it.
Binds(proto, failAt) ==
    /\ ListenAddr(proto)
    /\ failAt = "none" \/ Pos(BindOrder, proto) < Pos(BindOrder, failAt)

BindError(failAt) ==
    CASE failAt = "none" -> Nil
      [] failAt = ProtoUDP -> "couldn't listen to UDP socket"
      [] failAt = ProtoTCP -> "couldn't listen to TCP socket"
      [] failAt = ProtoTLS -> "could not start TLS listener"
      [] failAt = ProtoHTTPS -> "could not start HTTPS listener"

startListeners(failAt) ==
    /\ udpListen' = (udpListen \/ Binds(ProtoUDP, failAt))
    /\ tcpListen' = (tcpListen \/ Binds(ProtoTCP, failAt))
    /\ tlsListen' = (tlsListen \/ Binds(ProtoTLS, failAt))
    /\ httpsListen' = (httpsListen \/ Binds(ProtoHTTPS, failAt))
    /\ httpsServer' = (httpsServer \/ Binds(ProtoHTTPS, failAt))
    /\ openSockets' = [p \in Protos |->
                         openSockets[p] + (IF Binds(p, failAt) THEN 1 ELSE 0)]

\* The binds the environment may fail.
BindFaults ==
    IF faults > 0 THEN {p \in Protos : ListenAddr(p)} \cup {"none"} ELSE {"none"}

Start ==
    LET err == validateConfig
    IN  IF err # Nil
          THEN /\ ret' = [op |-> "Start", err |-> err]
               /\ UNCHANGED <<cfg, extVars, proxyVars, reqVars, faults, rounds>>
          ELSE \E failAt \in BindFaults :
                 /\ cache' = (IF cfg.CacheEnabled THEN [items |-> {}] ELSE cache)
                 /\ upstreamsRtt' = [idx \in Upstreams |-> Zero]
                 /\ upstreamsWeighted' =
                      [idx \in Upstreams |-> [Weight |-> One, Item |-> idx]]
                 /\ startListeners(failAt)
                 /\ started' = (failAt = "none")
                 /\ faults' = (IF failAt = "none" THEN faults ELSE faults - 1)
                 /\ ret' = [op |-> "Start", err |-> BindError(failAt)]
                 /\ UNCHANGED <<cfg, extVars, reqVars, rounds>>

\* ------------------------------------------------------------------------
\* Stop.

\* Stop closes a listener when its handle is non-nil (the HTTPS listener when
\* the server is).
Closable(proto) == IF proto = ProtoHTTPS THEN httpsServer ELSE Listener(proto)

\* The listeners Stop closes when the close of failAt fails: those up to and
\* including it.
Closes(proto, failAt) ==
    /\ Closable(proto)
    /\ failAt = "none" \/ Pos(CloseOrder, proto) <= Pos(CloseOrder, failAt)

CloseError(failAt) ==
    CASE failAt = "none" -> Nil
      [] failAt = ProtoTCP -> "couldn't close TCP listening socket"
      [] failAt = ProtoUDP -> "couldn't close UDP listening socket"
      [] failAt = ProtoTLS -> "couldn't close TLS listening socket"
      [] failAt = ProtoHTTPS -> "couldn't close HTTPS server"

CloseFaults ==
    IF faults > 0 THEN {p \in Protos : Closable(p)} \cup {"none"} ELSE {"none"}

\* Stop on a proxy that is not started.
StopNotStarted ==
    /\ ret' = [op |-> "Stop", err |-> Nil]
    /\ UNCHANGED <<cfg, extVars, proxyVars, reqVars, faults, rounds>>

\* Stop on a started proxy: the listeners are closed in turn, a failing close
\* returns at once, and started is cleared in the end.
StopListeners ==
    \E failAt \in CloseFaults :
      /\ tcpListen' = (tcpListen /\ ~Closes(ProtoTCP, failAt))
      /\ udpListen' = (udpListen /\ ~Closes(ProtoUDP, failAt))
      /\ tlsListen' = (tlsListen /\ ~Closes(ProtoTLS, failAt))
      /\ httpsListen' = (httpsListen /\ ~Closes(ProtoHTTPS, failAt))
      /\ httpsServer' = (httpsServer /\ ~Closes(ProtoHTTPS, failAt))
      /\ openSockets' = [p \in Protos |->
                           IF Closes(p, failAt) /\ openSockets[p] > 0
                             THEN openSockets[p] - 1 ELSE openSockets[p]]
      /\ started' = (failAt # "none")
      /\ faults' = (IF failAt = "none" THEN faults ELSE faults - 1)
      /\ ret' = [op |-> "Stop", err |-> CloseError(failAt)]
      /\ UNCHANGED <<cfg, extVars, cache, statsVars, reqVars, rounds>>

\* Stop without the early return for a proxy that is not started.
StopWithoutGuard == StopListeners

Stop == IF ~started THEN StopNotStarted ELSE StopListeners

\* ------------------------------------------------------------------------
\* DNS messages. A request is its ID and the query types of its questions (one
\* query name and class); a response is what the proxy's helpers set on it.

TypeA == "A"
TypeANY == "ANY"

RcodeSuccess == "NOERROR"
RcodeServerFailure == "SERVFAIL"
RcodeNotImplemented == "NOTIMPL"

\* dns.Msg.SetRcode(request, rcode), then RecursionAvailable = true.
genServerFailure(request) ==
    [Rcode |-> RcodeServerFailure, RecursionAvailable |-> TRUE,
     Id |-> request.Id, Question |-> request.Question, Edns0 |-> NilRef,
     From |-> "proxy"]

\* genNotImpl without the EDNS0 record.
genNotImplNoEdns(request) ==
    [Rcode |-> RcodeNotImplemented, RecursionAvailable |-> TRUE,
     Id |-> request.Id, Question |-> request.Question, Edns0 |-> NilRef,
     From |-> "proxy"]

\* The same, then SetEdns0(1452, false).
genNotImpl(request) ==
    [Rcode |-> RcodeNotImplemented, RecursionAvailable |-> TRUE,
     Id |-> request.Id, Question |-> request.Question,
     Edns0 |-> [UDPSize |-> 1452, DO |-> FALSE],
     From |-> "proxy"]

\* A reply to the request, from "upstream", "fallback", "handler" or "cache".
UpstreamReply(request, from) ==
    [Rcode |-> RcodeSuccess, RecursionAvailable |-> TRUE,
     Id |-> request.Id, Question |-> request.Question, Edns0 |-> NilRef,
     From |-> from]

\* What Upstream.Exchange may return: a reply or nil, and an error or nil.
ExchangeResults(request, from) ==
    {[reply |-> rep, err |-> e] :
       rep \in {NilRef, UpstreamReply(request, from)},
       e \in {Nil, from \o " failed"}}

\* The milliseconds a successful exchange may take.
MeasuredMs == {10}

\* ------------------------------------------------------------------------
\* Cache and rate limiter.

\* cache.Get(req): the cached response for the request's first question with
\* the request's ID, or Nil on a miss.
cacheGet(request) ==
    IF cache # NilRef /\ request.Question[1] \in cache.items
      THEN UpstreamReply(request, "cache")
      ELSE NilRef

\* cache.Set(reply): stored under the first question unless the reply's
\* minimum TTL is 0.
cacheSet(reply, ttl) ==
    IF ttl > 0 /\ Len(reply.Question) > 0
      THEN [items |-> cache.items \cup {reply.Question[1]}]
      ELSE cache

\* The minimum TTL a reply may carry.
ReplyTtls == {0, 60}

\* isRatelimited(addr): the bucket of the client IP holds Ratelimit tokens per
\* second; with none left the request is denied.
isRatelimited(addr) == cfg.Ratelimit > 0 /\ ratelimitBuckets[addr] = 0

ClientIPs == {"192.0.2.1"}

\* ------------------------------------------------------------------------
\* Upstream selector.

\* The new upstreamsRtt when the measurement replaces the average.
NewRttOverwrite(upstreamIdx, rtt) == [upstreamsRtt EXCEPT ![upstreamIdx] = rtt]

\* calculateUpstreamWeights(upstreamIdx, rtt): the new upstreamsRtt.
NewRtt(upstreamIdx, rtt) ==
    LET currentRtt == upstreamsRtt[upstreamIdx]
    IN  [upstreamsRtt EXCEPT ![upstreamIdx] =
           IF currentRtt = Zero THEN rtt ELSE IntHalf(IntAdd(currentRtt, rtt))]

RECURSIVE SumRtt(_, _)
SumRtt(rtts, n) == IF n = 0 THEN Zero ELSE IntAdd(SumRtt(rtts, n - 1), rtts[n - 1])

\* The weight without the clamp to 1.
WeightNoClamp(sum, rtt) == IF IntLeq(sum, rtt) THEN Zero ELSE IntSub(sum, rtt)

\* The weight growing with the round trip instead of falling.
WeightIsRtt(sum, rtt) == IF rtt = Zero THEN One ELSE rtt

\* The weight calculateUpstreamWeights gives an upstream of average rtt when
\* the averages add up to sum.
Weight(sum, rtt) ==
    IF IntLeq(sum, rtt) THEN One ELSE IntSub(sum, rtt)

calculateUpstreamWeights(upstreamIdx, rtt) ==
    LET rtts == NewRtt(upstreamIdx, rtt)
        sum == SumRtt(rtts, cfg.Upstreams)
    IN  /\ upstreamsRtt' = rtts
        /\ upstreamsWeighted' =
             [i \in DOMAIN upstreamsWeighted |->
                [upstreamsWeighted[i] EXCEPT !.Weight = Weight(sum, rtts[i])]]

\* chooseUpstream(): the indexes it may return. randutil.WeightedChoice
\* returns a choice of positive weight.
chooseUpstream ==
    IF cfg.Upstreams = 1 THEN {0}
    ELSE {upstreamsWeighted[i].Item :
            i \in {j \in DOMAIN upstreamsWeighted : upstreamsWeighted[j].Weight # Zero}}

\* ------------------------------------------------------------------------
\* Request pipeline. A request task is idle, or runs handleDNSRequest and is
\* blocked in the primary exchange ("exchanging"), in the fallback exchange
\* ("fallback"), in the custom handler ("handler") or in the write of the
\* response ("respond"), or waits for its event to be emitted ("emit"), or has
\* returned ("done").

Reqs == DOMAIN ctx

Questions == {<<>>, <<TypeA>>, <<TypeANY>>, <<TypeA, TypeANY>>, <<TypeANY, TypeA>>}
Requests == {[Id |-> id, Question |-> q] : id \in {4660}, q \in Questions}

IdleCtx ==
    [pc |-> "idle", Proto |-> Nil, Req |-> NilRef, Res |-> NilRef, Conn |-> FALSE,
     Addr |-> Nil, Upstream |-> NilRef, UpstreamIdx |-> 0, err |-> Nil,
     limited |-> FALSE, chosen |-> 0, cacheGets |-> 0, cacheSets |-> 0,
     exchanges |-> 0, records |-> 0, primaryErr |-> Nil,
     fallbacks |-> 0, fallbackReq |-> NilRef, fallback |-> NilRef, reply |-> NilRef,
     responds |-> 0, via |-> Nil, written |-> NilRef, events |-> 0, eventErr |-> Nil,
     HTTPRequest |-> NilRef, rtt |-> Zero]

\* ResolveEnd with handleDNSRequest returning the error of Resolve at once.
ResolveEndReturnsError(r, d, reply, err) ==
    /\ IF cache # NilRef /\ reply # NilRef
         THEN \E ttl \in ReplyTtls : cache' = cacheSet(reply, ttl)
         ELSE cache' = cache
    /\ ctx' = [ctx EXCEPT ![r] =
                 [d EXCEPT !.pc = IF err = Nil THEN "respond" ELSE "done",
                           !.cacheSets = @ + (IF cache # NilRef /\ reply # NilRef THEN 1 ELSE 0),
                           !.reply = reply,
                           !.Res = IF reply = NilRef THEN genServerFailure(d.Req) ELSE reply,
                           !.err = err]]

\* ResolveEnd without the SERVFAIL for a missing reply.
ResolveEndNoServfail(r, d, reply, err) ==
    /\ IF cache # NilRef /\ reply # NilRef
         THEN \E ttl \in ReplyTtls : cache' = cacheSet(reply, ttl)
         ELSE cache' = cache
    /\ ctx' = [ctx EXCEPT ![r] =
                 [d EXCEPT !.pc = "respond",
                           !.cacheSets = @ + (IF cache # NilRef /\ reply # NilRef THEN 1 ELSE 0),
                           !.reply = reply,
                           !.Res = reply,
                           !.err = err]]

\* Resolve from "Saving cached response" on: the reply is cached and d.Res is
\* set; handleDNSRequest decorates the error and calls respond.
ResolveEnd(r, d, reply, err) ==
    /\ IF cache # NilRef /\ reply # NilRef
         THEN \E ttl \in ReplyTtls : cache' = cacheSet(reply, ttl)
         ELSE cache' = cache
    /\ ctx' = [ctx EXCEPT ![r] =
                 [d EXCEPT !.pc = "respond",
                           !.cacheSets = @ + (IF cache # NilRef /\ reply # NilRef THEN 1 ELSE 0),
                           !.reply = reply,
                           !.Res = IF reply = NilRef THEN genServerFailure(d.Req) ELSE reply,
                           !.err = err]]

\* The rate limiter asked about every request.
RatelimitedAnyProto(proto, addr) == isRatelimited(addr)

\* The rate limiter is asked about UDP requests.
Ratelimited(proto, addr) == proto = ProtoUDP /\ isRatelimited(addr)

\* The response the question-count check and then the ANY check set, or NilRef.
PolicyAnswer(req) ==
    LET res == IF Len(req.Question) # 1 THEN genServerFailure(req) ELSE NilRef
    IN  IF cfg.RefuseAny /\ Len(req.Question) > 0 /\ req.Question[1] = TypeANY
          THEN genNotImpl(req) ELSE res

\* handleDNSRequest(d) on the context d0 a listener has built, up to the
\* first point where it blocks: the rate limiter, the question-count and ANY
\* policies, chooseUpstream, and the start of the handler or of Resolve (the
\* cache lookup).
handleDNSContext(r, d0) ==
    LET proto == d0.Proto
        req == d0.Req
        addr == d0.Addr
        limited == Ratelimited(proto, addr)
        res == PolicyAnswer(req)
    IN  /\ served < MaxServed
        /\ served' = served + 1
        /\ ratelimitBuckets' =
             IF proto = ProtoUDP /\ cfg.Ratelimit > 0 /\ ~isRatelimited(addr)
               THEN [ratelimitBuckets EXCEPT ![addr] = @ - 1]
               ELSE ratelimitBuckets
        /\ IF limited
             THEN ctx' = [ctx EXCEPT ![r] = [d0 EXCEPT !.pc = "done", !.limited = TRUE]]
           ELSE IF res # NilRef
             THEN ctx' = [ctx EXCEPT ![r] = [d0 EXCEPT !.pc = "respond", !.Res = res]]
           ELSE \E idx \in chooseUpstream :
                  LET d1 == [d0 EXCEPT !.Upstream = [Address |-> idx],
                                       !.UpstreamIdx = idx, !.chosen = 1]
                      val == cacheGet(req)
                  IN  IF cfg.Handler
                        THEN ctx' = [ctx EXCEPT ![r] = [d1 EXCEPT !.pc = "handler"]]
                      ELSE IF val # NilRef
                        THEN ctx' = [ctx EXCEPT ![r] =
                                       [d1 EXCEPT !.pc = "respond", !.Res = val,
                                                  !.cacheGets = 1]]
                      ELSE ctx' = [ctx EXCEPT ![r] =
                                     [d1 EXCEPT !.pc = "exchanging",
                                                !.cacheGets = IF cache # NilRef THEN 1 ELSE 0]]
        /\ UNCHANGED <<cfg, proxyVars, faults, ret, rounds>>

\* A request arrives on a listener, which builds its context (the HTTPS
\* listener leaves Conn nil) and calls handleDNSRequest.
handleDNSRequest(r, proto, req, addr) ==
    /\ ctx[r].pc \in {"idle", "done"}
    /\ started /\ Listener(proto)
    /\ handleDNSContext(r, [IdleCtx EXCEPT !.Proto = proto, !.Req = req,
                                           !.Addr = addr,
                                           !.Conn = (proto # ProtoHTTPS)])
    /\ UNCHANGED extVars

\* The record always made on the first upstream.
RecordIdxFirst(d) == 0

\* The upstream index calculateUpstreamWeights is called with.
RecordIdx(d) == d.UpstreamIdx

\* Resolve when dnsUpstream.Exchange returns: the round trip is recorded, then
\* the fallback is called or Resolve ends.
ExchangeReturn(r) ==
    /\ ctx[r].pc = "exchanging"
    /\ \E res \in ExchangeResults(ctx[r].Req, "upstream"), ms \in MeasuredMs :
         LET rtt == IF res.err # Nil THEN defaultTimeout ELSE IntOf(ms)
             d == [ctx[r] EXCEPT !.exchanges = @ + 1, !.records = @ + 1,
                                 !.primaryErr = res.err, !.rtt = rtt]
         IN  /\ calculateUpstreamWeights(RecordIdx(d), rtt)
             /\ IF res.err # Nil /\ cfg.Fallback
                  THEN /\ ctx' = [ctx EXCEPT ![r] = [d EXCEPT !.pc = "fallback"]]
                       /\ cache' = cache
                  ELSE ResolveEnd(r, d, res.reply, res.err)
    /\ UNCHANGED <<cfg, extVars, started, listenVars, served, ratelimitBuckets, faults, ret, rounds>>

\* The fallback's reply with the primary's error kept.
FallbackResultKeepsError(primaryErr, fb) == [reply |-> fb.reply, err |-> primaryErr]

\* reply, err = p.Fallback.Exchange(d.Req): what Resolve goes on with after the
\* primary exchange returned the error primaryErr and the fallback exchange fb.
FallbackResult(primaryErr, fb) == fb

\* Resolve when p.Fallback.Exchange returns.
FallbackReturn(r) ==
    /\ ctx[r].pc = "fallback"
    /\ \E fb \in ExchangeResults(ctx[r].Req, "fallback") :
         LET d == [ctx[r] EXCEPT !.fallbacks = @ + 1, !.fallbackReq = ctx[r].Req,
                                 !.fallback = fb]
             res == FallbackResult(ctx[r].primaryErr, fb)
         IN  ResolveEnd(r, d, res.reply, res.err)
    /\ UNCHANGED <<cfg, extVars, started, listenVars, statsVars, served, ratelimitBuckets,
                   faults, ret, rounds>>

\* The custom handler returns: it may or may not have set d.Res, and returns
\* an error or nil.
HandlerReturn(r) ==
    /\ ctx[r].pc = "handler"
    /\ \E res \in ExchangeResults(ctx[r].Req, "handler") :
         ctx' = [ctx EXCEPT ![r] =
                   [@ EXCEPT !.pc = "respond", !.Res = res.reply, !.err = res.err]]
    /\ UNCHANGED <<cfg, extVars, proxyVars, served, ratelimitBuckets, faults, ret, rounds>>

\* The transport's respond function, by protocol.
RespondBy(proto) ==
    CASE proto = ProtoUDP -> "respondUDP"
      [] proto = ProtoTCP -> "respondTCP"
      [] proto = ProtoTLS -> "respondTCP"
      [] proto = ProtoHTTPS -> "respondHTTPS"

\* respond(d): nothing when d.Res is nil, else d.Res is handed to the
\* transport's respond function (a failing write is only logged).
respond(r) ==
    /\ ctx[r].pc = "respond"
    /\ IF ctx[r].Res = NilRef
         THEN ctx' = [ctx EXCEPT ![r] = [@ EXCEPT !.pc = "emit"]]
         ELSE ctx' = [ctx EXCEPT ![r] =
                        [@ EXCEPT !.pc = "emit", !.responds = @ + 1,
                                  !.via = RespondBy(ctx[r].Proto),
                                  !.written = ctx[r].Res]]
    /\ UNCHANGED <<cfg, extVars, proxyVars, served, ratelimitBuckets, faults, ret, rounds>>

\* The event sink: one ProcessedEvent for the request, with its error text.
EmitEvent(r) ==
    /\ ctx[r].pc = "emit"
    /\ ctx' = [ctx EXCEPT ![r] = [@ EXCEPT !.pc = "done", !.events = @ + 1,
                                           !.eventErr = ctx[r].err]]
    /\ UNCHANGED <<cfg, extVars, proxyVars, served, ratelimitBuckets, faults, ret, rounds>>

\* ------------------------------------------------------------------------
\* TCP and TLS connections. A connection task c runs handleTCPConnection on
\* the connection tcpPacketLoop accepted; the client's requests wait in
\* conns[c].inbox, numbered in the order they were sent.

\* tcpPacketLoop: l.Accept() returns a connection and its handler is started.
TCPAccept(c, proto) ==
    /\ conns[c].state = "none"
    /\ proto \in {ProtoTCP, ProtoTLS}
    /\ started /\ Listener(proto)
    /\ conns' = [conns EXCEPT ![c] = [@ EXCEPT !.state = "open", !.proto = proto]]
    /\ UNCHANGED <<cfg, proxyVars, reqVars, faults, ret, rounds, httpResp, nat64, dns64, lockVars>>

\* The messages clients have sent on the connections of S.
RECURSIVE SentOn(_)
SentOn(S) ==
    IF S = {} THEN 0
    ELSE LET c == CHOOSE x \in S : TRUE IN conns[c].sent + SentOn(S \ {c})

\* The client writes its next length-prefixed message: a DNS request, or
\* bytes that do not unpack (NilRef).
TCPSend(c, q, unpacks) ==
    /\ conns[c].state = "open"
    /\ SentOn(DOMAIN conns) < MaxServed
    /\ conns' = [conns EXCEPT ![c] =
                   [@ EXCEPT !.sent = @ + 1,
                             !.inbox = Append(@, IF unpacks
                                                  THEN [Id |-> conns[c].sent + 1,
                                                        Question |-> q]
                                                  ELSE NilRef)]]
    /\ UNCHANGED <<cfg, proxyVars, reqVars, faults, ret, rounds, httpResp, nat64, dns64, lockVars>>

\* The handler reading the next message while requests are in flight.
TCPReadAnytime(c) == TRUE

\* handleTCPConnection is at the top of its loop: handleDNSRequest of the
\* previous message, called in the loop body, has returned.
TCPReadReady(c) == ctx[c].pc \in {"idle", "done"}

\* One turn of the loop of handleTCPConnection: it returns (closing the
\* connection) when the proxy is not started or the message does not unpack,
\* else it calls handleDNSRequest on the message read.
handleTCPConnection(c) ==
    /\ conns[c].state = "open"
    /\ TCPReadReady(c)
    /\ IF ~started
         THEN /\ conns' = [conns EXCEPT ![c] = [@ EXCEPT !.state = "closed"]]
              /\ UNCHANGED <<cfg, proxyVars, reqVars, faults, ret, rounds>>
         ELSE /\ conns[c].inbox # <<>>
              /\ IF Head(conns[c].inbox) = NilRef
                   THEN /\ conns' = [conns EXCEPT ![c] =
                                       [@ EXCEPT !.state = "closed", !.inbox = Tail(@)]]
                        /\ UNCHANGED <<cfg, proxyVars, reqVars, faults, ret, rounds>>
                   ELSE /\ conns' = [conns EXCEPT ![c] =
                                       [@ EXCEPT !.read = @ + 1, !.inbox = Tail(@)]]
                        /\ handleDNSContext(c,
                              [IdleCtx EXCEPT !.Proto = conns[c].proto,
                                              !.Req = Head(conns[c].inbox),
                                              !.Addr = "192.0.2.1", !.Conn = TRUE])
    /\ UNCHANGED <<httpResp, nat64, dns64, lockVars>>

\* ------------------------------------------------------------------------
\* DNS over HTTPS. A string is a sequence of one-character strings, a buffer
\* a sequence of bytes.

\* The alphabet of base64.RawURLEncoding, in the order of its values.
B64Alphabet ==
    <<"A", "B", "C", "D", "E", "F", "G", "H", "I", "J", "K", "L", "M", "N", "O", "P",
      "Q", "R", "S", "T", "U", "V", "W", "X", "Y", "Z", "a", "b", "c", "d", "e", "f",
      "g", "h", "i", "j", "k", "l", "m", "n", "o", "p", "q", "r", "s", "t", "u", "v",
      "w", "x", "y", "z", "0", "1", "2", "3", "4", "5", "6", "7", "8", "9", "-", "_">>

B64Value(ch) == (CHOOSE i \in 1 .. Len(B64Alphabet) : B64Alphabet[i] = ch) - 1

\* The characters the decoder skips.
B64Skipped == {"\n", "\r"}

RECURSIVE B64Strip(_)
B64Strip(str) ==
    IF str = <<>> THEN <<>>
    ELSE IF Head(str) \in B64Skipped THEN B64Strip(Tail(str))
    ELSE <<Head(str)>> \o B64Strip(Tail(str))

\* The bytes of a run of characters of the alphabet, four characters to three
\* bytes; a last group of two or three characters gives one or two bytes.
RECURSIVE B64Bytes(_)
B64Bytes(str) ==
    IF Len(str) = 0 THEN <<>>
    ELSE IF Len(str) >= 4
      THEN LET n == B64Value(str[1]) * 262144 + B64Value(str[2]) * 4096
                    + B64Value(str[3]) * 64 + B64Value(str[4])
           IN  <<n \div 65536, (n \div 256) % 256, n % 256>>
               \o B64Bytes(SubSeq(str, 5, Len(str)))
    ELSE IF Len(str) = 3
      THEN LET n == B64Value(str[1]) * 4096 + B64Value(str[2]) * 64 + B64Value(str[3])
           IN  <<n \div 1024, (n \div 4) % 256>>
    ELSE LET n == B64Value(str[1]) * 64 + B64Value(str[2])
         IN  <<n \div 16>>

\* base64.RawURLEncoding.DecodeString(str): the bytes, or an error for a
\* character outside the alphabet (the padding character included) or a
\* single trailing character.
B64Decode(str) ==
    LET t == B64Strip(str)
    IN  IF \E i \in 1 .. Len(t) : \A j \in 1 .. Len(B64Alphabet) : B64Alphabet[j] # t[i]
          THEN [buf |-> <<>>, err |-> "illegal base64 data"]
        ELSE IF Len(t) % 4 = 1
          THEN [buf |-> <<>>, err |-> "illegal base64 data"]
        ELSE [buf |-> B64Bytes(t), err |-> Nil]

\* The offset after the uncompressed domain name at off, or 0 when the buffer
\* ends first or a label length is not below 64.
RECURSIVE NameEnd(_, _)
NameEnd(buf, off) ==
    IF off > Len(buf) THEN 0
    ELSE IF buf[off] = 0 THEN off + 1
    ELSE IF buf[off] >= 64 THEN 0
    ELSE NameEnd(buf, off + 1 + buf[off])

QType(n) == IF n = 1 THEN TypeA ELSE IF n = 255 THEN TypeANY ELSE "TYPE" \o ToString(n)

\* The question types of the n questions at off; ok is FALSE when the buffer
\* does not hold them.
RECURSIVE UnpackQuestions(_, _, _)
UnpackQuestions(buf, off, n) ==
    IF n = 0 THEN [ok |-> TRUE, q |-> <<>>]
    ELSE LET e == NameEnd(buf, off)
         IN  IF e = 0 \/ e + 3 > Len(buf) THEN [ok |-> FALSE, q |-> <<>>]
             ELSE LET rest == UnpackQuestions(buf, e + 4, n - 1)
                  IN  [ok |-> rest.ok,
                       q |-> <<QType(buf[e] * 256 + buf[e + 1])>> \o rest.q]

\* msg.Unpack(buf) for a query: the 12-byte header, then the questions; NilRef
\* when it returns an error.
Unpack(buf) ==
    IF Len(buf) < 12 THEN NilRef
    ELSE LET qs == UnpackQuestions(buf, 13, buf[5] * 256 + buf[6])
         IN  IF ~qs.ok THEN NilRef
             ELSE [Id |-> buf[1] * 256 + buf[2], Question |-> qs.q]

\* The host strings that are IP literals.
IPLiterals == {"192.0.2.7", "2001:db8::7"}

\* net.ParseIP(host): the IP, or nil when host is not an IP literal.
ParseIP(host) == IF host \in IPLiterals THEN [ip |-> host] ELSE NilRef

\* The port strings that are decimal numbers, with their values.
PortNumbers == [port \in {"4000", "53"} |-> IF port = "53" THEN 53 ELSE 4000]

\* strconv.Atoi(port).
Atoi(port) ==
    IF port \in DOMAIN PortNumbers
      THEN [n |-> PortNumbers[port], err |-> Nil]
      ELSE [n |-> 0, err |-> "invalid syntax"]

\* remoteAddr(r), r.RemoteAddr being split into host and port: an error when
\* the port is not a number and when the host IS an IP address, else a TCP
\* address with the nil IP.
remoteAddr(h) ==
    LET portValue == Atoi(h.RemoteAddr.port)
        ip == ParseIP(h.RemoteAddr.host)
    IN  IF portValue.err # Nil THEN [addr |-> NilRef, err |-> portValue.err]
        ELSE IF ip # NilRef THEN [addr |-> NilRef, err |-> "invalid IP"]
        ELSE [addr |-> [IP |-> ip, Port |-> portValue.n], err |-> Nil]

\* The request bytes ServeHTTP takes from the HTTP request h, with the HTTP
\* status it answers while doing so (0 when it goes on).
HTTPBuffer(h) ==
    IF h.Method = "GET"
      THEN LET dec == B64Decode(h.Dns)
           IN  IF Len(dec.buf) = 0 \/ dec.err # Nil
                 THEN [buf |-> <<>>, status |-> 400]
                 ELSE [buf |-> dec.buf, status |-> 0]
    ELSE IF h.Method = "POST"
      THEN IF h.ContentType # "application/dns-message"
             THEN [buf |-> <<>>, status |-> 415]
           ELSE IF ~h.Body.readable
             THEN [buf |-> <<>>, status |-> 400]
           ELSE [buf |-> h.Body.bytes, status |-> 0]
    ELSE [buf |-> <<>>, status |-> 405]

\* HTTPStatus without the check of the content type.
HTTPStatusAnyContentType(h) ==
    IF h.Method = "POST" /\ h.Body.readable
      THEN IF Unpack(h.Body.bytes) = NilRef THEN 400 ELSE 0
      ELSE IF HTTPBuffer(h).status # 0 THEN HTTPBuffer(h).status
           ELSE IF Unpack(HTTPBuffer(h).buf) = NilRef THEN 400 ELSE 0

\* The HTTP error status ServeHTTP answers the request h with, 0 when it
\* calls handleDNSRequest.
HTTPStatus(h) ==
    IF HTTPBuffer(h).status # 0 THEN HTTPBuffer(h).status
    ELSE IF Unpack(HTTPBuffer(h).buf) = NilRef THEN 400 ELSE 0

\* ServeHTTP(w, r) for the HTTP request h, served by the task r of the HTTPS
\* server: an HTTP error, or handleDNSRequest on a context without Conn.
ServeHTTP(r, h) ==
    /\ httpsServer
    /\ ctx[r].pc \in {"idle", "done"}
    /\ LET status == HTTPStatus(h)
       IN  IF status # 0
         THEN /\ httpResp' = [req |-> h, status |-> status]
              /\ UNCHANGED <<cfg, proxyVars, reqVars, faults, ret, rounds>>
         ELSE /\ handleDNSContext(r,
                    [IdleCtx EXCEPT !.Proto = ProtoHTTPS,
                                    !.Req = Unpack(HTTPBuffer(h).buf),
                                    !.Addr = remoteAddr(h).addr,
                                    !.HTTPRequest = h])
              /\ httpResp' = httpResp
    /\ UNCHANGED <<conns, nat64, dns64, lockVars>>

\* ------------------------------------------------------------------------
\* DNS64. An address is a sequence of bytes: 4 for IPv4, 16 for IPv6.

\* The result of one probe: the AAAA answers for ipv4only.arpa give the prefix,
\* the first answer's address without its last 4 bytes; no answer is an error.
ProbeResult(answers) ==
    IF answers = <<>>
      THEN [prefix |-> <<>>, err |-> "no AAAA answer"]
      ELSE [prefix |-> SubSeq(answers[1], 1, Len(answers[1]) - 4), err |-> Nil]

\* getNAT64PrefixParallel(dnsServers): a probe is started for every candidate
\* at once; cands[i] is what candidate i answers.
getNAT64PrefixParallel(cands) ==
    /\ nat64 = NilRef
    /\ nat64' = [cands |-> cands,
                 probe |-> [i \in 1 .. Len(cands) |-> "running"],
                 completed |-> <<>>, recvd |-> 0, errs |-> 0, result |-> NilRef]
    /\ UNCHANGED <<cfg, proxyVars, reqVars, faults, ret, rounds, conns, httpResp, dns64, lockVars>>

\* The probe of candidate i returns and sends its result to the coordinator.
ProbeReturn(i) ==
    /\ nat64 # NilRef
    /\ i \in DOMAIN nat64.probe
    /\ nat64.probe[i] = "running"
    /\ nat64' = [nat64 EXCEPT !.probe[i] = "done", !.completed = Append(@, i)]
    /\ UNCHANGED <<cfg, proxyVars, reqVars, faults, ret, rounds, conns, httpResp, dns64, lockVars>>

\* The coordinator giving up at the first failed probe.
CoordinatorFailFast(res, errs, count) ==
    IF res.err = Nil THEN res ELSE [prefix |-> <<>>, err |-> "all probes failed"]

\* What the coordinator does with the probe result res, having counted errs
\* failures among count probes: it returns the first success, returns an
\* error after the last failure, and otherwise goes on waiting (NilRef).
CoordinatorResult(res, errs, count) ==
    IF res.err = Nil THEN res
    ELSE IF errs + 1 = count THEN [prefix |-> <<>>, err |-> "all probes failed"]
    ELSE NilRef

\* The coordinator receives the next result, in the order the probes returned.
CoordinatorReceive ==
    /\ nat64 # NilRef
    /\ nat64.result = NilRef
    /\ nat64.recvd < Len(nat64.completed)
    /\ LET i == nat64.completed[nat64.recvd + 1]
           res == ProbeResult(nat64.cands[i])
       IN  nat64' = [nat64 EXCEPT
                       !.recvd = @ + 1,
                       !.errs = @ + (IF res.err # Nil THEN 1 ELSE 0),
                       !.result = CoordinatorResult(res, nat64.errs, Len(nat64.cands))]
    /\ UNCHANGED <<cfg, proxyVars, reqVars, faults, ret, rounds, conns, httpResp, dns64, lockVars>>

\* The synthetic address with a zero byte between the prefix and the IPv4
\* address, cut to 16 bytes.
dns64AddrZeroByte(prefix, a) == SubSeq(prefix \o <<0>> \o a, 1, 16)

\* The synthetic AAAA address for the A address a under the /96 prefix: the
\* 12 bytes of the prefix, then the 4 bytes of a (RFC 6052 section 2.2).
dns64Addr(prefix, a) == prefix \o a

\* DNS64 synthesis for one A answer of the sibling query, with the prefix the
\* discovery has stored.
Synthesize(a) ==
    /\ nat64 # NilRef
    /\ nat64.result # NilRef
    /\ nat64.result.err = Nil
    /\ dns64' = [prefix |-> nat64.result.prefix, a |-> a,
                 aaaa |-> dns64Addr(nat64.result.prefix, a)]
    /\ UNCHANGED <<cfg, proxyVars, reqVars, faults, ret, rounds, conns, httpResp, nat64, lockVars>>

\* ------------------------------------------------------------------------
\* Locking. The goroutines of the proxy at the grain of their lock operations:
\* a caller of Start, Stop and Addr, the UDP read loop each Start starts, the
\* handler of a TCP connection and the handlers of UDP datagrams. mu is the
\* RWMutex embedded in Proxy, rttLock the mutex of the selector's vectors.

Caller == <<"api", 1>>
UDPLoops == {<<"udp", g>> : g \in 1 .. MaxCalls}
TCPHandlers == {<<"tcp", 1>>}
UDPHandlers == {<<"pkt", k>> : k \in 1 .. MaxPackets}
Tasks == {Caller} \cup UDPLoops \cup TCPHandlers \cup UDPHandlers

\* A goroutine that has not been started.
NoTask == [pc |-> "none", op |-> Nil, gen |-> 0, n |-> 0, idx |-> 0, rtt |-> Zero,
           seen |-> <<>>]

\* sync.RWMutex: Lock waits until no reader and no writer holds the mutex, and
\* from the moment Lock is called no further RLock is granted.
LockGranted == mu.writer = {} /\ mu.readers = {}
RLockGranted == mu.writer = {} /\ \A t \in Tasks : task[t].pc # "lock"

\* The caller calls Start, Stop or Addr.
Call(op) ==
    /\ task[Caller].pc = "idle"
    /\ task[Caller].n < MaxCalls
    /\ task' = [task EXCEPT ![Caller] =
                  [@ EXCEPT !.pc = IF op = "Addr" THEN "rlock" ELSE "lock",
                            !.op = op, !.n = @ + 1]]
    /\ UNCHANGED <<cfg, proxyVars, reqVars, faults, ret, rounds,
                   conns, httpResp, nat64, dns64, mu, rttLock, sockGen>>

\* p.Lock() of Start and Stop returns.
Lock(t) ==
    /\ task[t].pc = "lock"
    /\ LockGranted
    /\ mu' = [mu EXCEPT !.writer = {t}]
    /\ task' = [task EXCEPT ![t] = [@ EXCEPT !.pc = "locked"]]
    /\ UNCHANGED <<cfg, proxyVars, reqVars, faults, ret, rounds,
                   conns, httpResp, nat64, dns64, rttLock, sockGen>>

\* Start up to p.upstreamsRtt = make(...): the configuration is validated
\* (an error returns and unlocks), the cache created and the rtt vector
\* replaced.
StartInit(t) ==
    /\ task[t].pc = "locked" /\ task[t].op = "Start"
    /\ LET err == validateConfig
       IN  IF err # Nil
             THEN /\ ret' = [op |-> "Start", err |-> err]
                  /\ mu' = [mu EXCEPT !.writer = {}]
                  /\ task' = [task EXCEPT ![t] = [@ EXCEPT !.pc = "idle"]]
                  /\ UNCHANGED <<cache, upstreamsRtt>>
             ELSE /\ cache' = (IF cfg.CacheEnabled THEN [items |-> {}] ELSE cache)
                  /\ upstreamsRtt' = [idx \in Upstreams |-> Zero]
                  /\ task' = [task EXCEPT ![t] = [@ EXCEPT !.pc = "initStats"]]
                  /\ UNCHANGED <<ret, mu>>
    /\ UNCHANGED <<cfg, started, listenVars, upstreamsWeighted, reqVars, faults, rounds,
                   conns, httpResp, nat64, dns64, rttLock, sockGen>>

\* Start from p.upstreamsWeighted = make(...) on: the weights are set to 1,
\* the listeners are bound and their loops started (the UDP loop begins at its
\* RLock), started is set and the deferred Unlock runs.
StartReturn(t) ==
    /\ task[t].pc = "initStats"
    /\ \E failAt \in BindFaults :
         /\ upstreamsWeighted' = [idx \in Upstreams |-> [Weight |-> One, Item |-> idx]]
         /\ startListeners(failAt)
         /\ started' = (failAt = "none")
         /\ faults' = (IF failAt = "none" THEN faults ELSE faults - 1)
         /\ ret' = [op |-> "Start", err |-> BindError(failAt)]
         /\ sockGen' = sockGen + 1
         /\ task' = [task EXCEPT
                       ![t] = [@ EXCEPT !.pc = "idle"],
                       ![<<"udp", sockGen + 1>>] =
                          IF failAt = "none" /\ udpListen'
                            THEN [NoTask EXCEPT !.pc = "rlock", !.gen = sockGen + 1]
                            ELSE @]
    /\ mu' = [mu EXCEPT !.writer = {}]
    /\ UNCHANGED <<cfg, cache, upstreamsRtt, reqVars, rounds,
                   conns, httpResp, nat64, dns64, rttLock>>

\* Stop under the lock, to the deferred Unlock.
StopReturn(t) ==
    /\ task[t].pc = "locked" /\ task[t].op = "Stop"
    /\ IF ~started
         THEN /\ ret' = [op |-> "Stop", err |-> Nil]
              /\ UNCHANGED <<started, listenVars, faults>>
         ELSE \E failAt \in CloseFaults :
                /\ tcpListen' = (tcpListen /\ ~Closes(ProtoTCP, failAt))
                /\ udpListen' = (udpListen /\ ~Closes(ProtoUDP, failAt))
                /\ tlsListen' = (tlsListen /\ ~Closes(ProtoTLS, failAt))
                /\ httpsListen' = (httpsListen /\ ~Closes(ProtoHTTPS, failAt))
                /\ httpsServer' = (httpsServer /\ ~Closes(ProtoHTTPS, failAt))
                /\ openSockets' = [p \in Protos |->
                                     IF Closes(p, failAt) /\ openSockets[p] > 0
                                       THEN openSockets[p] - 1 ELSE openSockets[p]]
                /\ started' = (failAt # "none")
                /\ faults' = (IF failAt = "none" THEN faults ELSE faults - 1)
                /\ ret' = [op |-> "Stop", err |-> CloseError(failAt)]
    /\ mu' = [mu EXCEPT !.writer = {}]
    /\ task' = [task EXCEPT ![t] = [@ EXCEPT !.pc = "idle"]]
    /\ UNCHANGED <<cfg, cache, statsVars, reqVars, rounds,
                   conns, httpResp, nat64, dns64, rttLock, sockGen>>

\* p.RLock() of Addr returns.
AddrRLock(t) ==
    /\ task[t].pc = "rlock" /\ task[t].op = "Addr"
    /\ RLockGranted
    /\ mu' = [mu EXCEPT !.readers = @ \cup {t}]
    /\ task' = [task EXCEPT ![t] = [@ EXCEPT !.pc = "addr"]]
    /\ UNCHANGED <<cfg, proxyVars, reqVars, faults, ret, rounds,
                   conns, httpResp, nat64, dns64, rttLock, sockGen>>

\* Addr returns the listen address; the deferred RUnlock runs.
AddrReturn(t) ==
    /\ task[t].pc = "addr"
    /\ mu' = [mu EXCEPT !.readers = @ \ {t}]
    /\ ret' = [op |-> "Addr", err |-> Nil]
    /\ task' = [task EXCEPT ![t] = [@ EXCEPT !.pc = "idle"]]
    /\ UNCHANGED <<cfg, proxyVars, reqVars, faults, rounds,
                   conns, httpResp, nat64, dns64, rttLock, sockGen>>

\* The p.RLock() at the top of the loop of udpPacketLoop and of
\* handleTCPConnection returns.
LoopRLock(t) ==
    /\ task[t].pc = "rlock" /\ t # Caller
    /\ RLockGranted
    /\ mu' = [mu EXCEPT !.readers = @ \cup {t}]
    /\ task' = [task EXCEPT ![t] = [@ EXCEPT !.pc = "check"]]
    /\ UNCHANGED <<cfg, proxyVars, reqVars, faults, ret, rounds,
                   conns, httpResp, nat64, dns64, rttLock, sockGen>>

\* if !p.started { return }; p.RUnlock(): the loop returns with the read lock
\* held when the proxy is not started, else it unlocks and goes on to read.
LoopCheckStarted(t) ==
    /\ task[t].pc = "check"
    /\ IF ~started
         THEN /\ task' = [task EXCEPT ![t] = [@ EXCEPT !.pc = "exited"]]
              /\ mu' = mu
         ELSE /\ task' = [task EXCEPT ![t] = [@ EXCEPT !.pc = "reading"]]
              /\ mu' = [mu EXCEPT !.readers = @ \ {t}]
    /\ UNCHANGED <<cfg, proxyVars, reqVars, faults, ret, rounds,
                   conns, httpResp, nat64, dns64, rttLock, sockGen>>

\* The UDP socket the loop t reads from has been closed by Stop.
SocketClosed(t) == ~(udpListen /\ task[t].gen = sockGen)

\* conn.ReadFrom returns a datagram: its handler is started and the loop goes
\* on.
udpPacketLoopRead(t, h) ==
    /\ t \in UDPLoops /\ task[t].pc = "reading"
    /\ ~SocketClosed(t)
    /\ h \in UDPHandlers /\ task[h].pc = "none"
    /\ task' = [task EXCEPT ![t] = [@ EXCEPT !.pc = "rlock"],
                            ![h] = [@ EXCEPT !.pc = "choose"]]
    /\ UNCHANGED <<cfg, proxyVars, reqVars, faults, ret, rounds,
                   conns, httpResp, nat64, dns64, mu, rttLock, sockGen>>

\* conn.ReadFrom returns the error of a closed socket: the loop breaks.
udpPacketLoopClosed(t) ==
    /\ t \in UDPLoops /\ task[t].pc = "reading"
    /\ SocketClosed(t)
    /\ task' = [task EXCEPT ![t] = [@ EXCEPT !.pc = "exited"]]
    /\ UNCHANGED <<cfg, proxyVars, reqVars, faults, ret, rounds,
                   conns, httpResp, nat64, dns64, mu, rttLock, sockGen>>

\* tcpPacketLoop accepts a connection and starts its handler.
tcpPacketLoopAccept(t) ==
    /\ t \in TCPHandlers /\ task[t].pc = "none"
    /\ started /\ tcpListen
    /\ task' = [task EXCEPT ![t] = [@ EXCEPT !.pc = "rlock"]]
    /\ UNCHANGED <<cfg, proxyVars, reqVars, faults, ret, rounds,
                   conns, httpResp, nat64, dns64, mu, rttLock, sockGen>>

\* readPrefixed returns on the connection: a request, which is handled, or an
\* error (the deadline, or the client has closed), which ends the handler.
handleTCPConnectionRead(t, ok) ==
    /\ t \in TCPHandlers /\ task[t].pc = "reading"
    /\ ok => task[t].n < MaxPackets
    /\ task' = [task EXCEPT ![t] =
                  IF ok THEN [@ EXCEPT !.pc = "choose", !.n = @ + 1]
                        ELSE [@ EXCEPT !.pc = "exited"]]
    /\ UNCHANGED <<cfg, proxyVars, reqVars, faults, ret, rounds,
                   conns, httpResp, nat64, dns64, mu, rttLock, sockGen>>

\* chooseUpstream in handleDNSRequest: with several upstreams the weights are
\* read under rttLock.
chooseUpstreamLocked(t) ==
    /\ task[t].pc = "choose"
    /\ cfg.Upstreams > 1 => rttLock = {}
    /\ \E idx \in chooseUpstream :
         task' = [task EXCEPT ![t] = [@ EXCEPT !.pc = "exchanging", !.idx = idx]]
    /\ UNCHANGED <<cfg, proxyVars, reqVars, faults, ret, rounds,
                   conns, httpResp, nat64, dns64, mu, rttLock, sockGen>>

\* dnsUpstream.Exchange returns in Resolve, with an error or after ms
\* milliseconds.
ExchangeDone(t) ==
    /\ task[t].pc = "exchanging"
    /\ \E failed \in BOOLEAN, ms \in MeasuredMs :
         task' = [task EXCEPT ![t] =
                    [@ EXCEPT !.pc = "record",
                              !.rtt = IF failed THEN defaultTimeout ELSE IntOf(ms)]]
    /\ UNCHANGED <<cfg, proxyVars, reqVars, faults, ret, rounds,
                   conns, httpResp, nat64, dns64, mu, rttLock, sockGen>>

\* calculateUpstreamWeights to the store of the new average: rttLock is taken
\* and upstreamsRtt[upstreamIdx] written.
RecordLock(t) ==
    /\ task[t].pc = "record"
    /\ rttLock = {}
    /\ rttLock' = {t}
    /\ upstreamsRtt' = NewRtt(task[t].idx, task[t].rtt)
    /\ task' = [task EXCEPT ![t] = [@ EXCEPT !.pc = "weights", !.seen = upstreamsRtt']]
    /\ UNCHANGED <<cfg, started, listenVars, cache, upstreamsWeighted, reqVars, faults,
                   ret, rounds, conns, httpResp, nat64, dns64, mu, sockGen>>

\* The weights calculateUpstreamWeights computes from the rtt vector rtts.
WeightsOf(rtts) ==
    [i \in DOMAIN upstreamsWeighted |->
       [upstreamsWeighted[i] EXCEPT !.Weight = Weight(SumRtt(rtts, cfg.Upstreams), rtts[i])]]

\* What the two loops of calculateUpstreamWeights may leave in
\* p.upstreamsWeighted: the weights of the rtt vector as it is now; and, when
\* Start has replaced the vectors since this task wrote its average (both
\* access them without a common lock), also the weights of the vector this
\* task wrote to, or nothing, the writes having gone to the replaced slice.
RecordOutcomes(t) ==
    {WeightsOf(upstreamsRtt)}
    \cup (IF task[t].seen # upstreamsRtt
            THEN {WeightsOf(task[t].seen), upstreamsWeighted} ELSE {})

\* calculateUpstreamWeights from the sum on: the weights are written and the
\* deferred Unlock runs; the request is over, a TCP handler returns to the
\* top of its loop and the handler of a datagram ends.
RecordUnlock(t) ==
    /\ task[t].pc = "weights"
    /\ \E w \in RecordOutcomes(t) : upstreamsWeighted' = w
    /\ rttLock' = rttLock \ {t}
    /\ task' = [task EXCEPT ![t] =
                  [@ EXCEPT !.pc = IF t \in TCPHandlers THEN "rlock" ELSE "exited"]]
    /\ UNCHANGED <<cfg, started, listenVars, cache, upstreamsRtt, reqVars, faults,
                   ret, rounds, conns, httpResp, nat64, dns64, mu, sockGen>>

\* A second passes: the rate limiter's buckets are refilled.
Tick ==
    /\ \E a \in ClientIPs : ratelimitBuckets[a] # cfg.Ratelimit
    /\ ratelimitBuckets' = [a \in ClientIPs |-> cfg.Ratelimit]
    /\ UNCHANGED <<cfg, extVars, proxyVars, ctx, served, faults, ret, rounds>>

\* A cached response expires.
CacheExpire ==
    /\ cache # NilRef
    /\ \E q \in cache.items : cache' = [items |-> cache.items \ {q}]
    /\ UNCHANGED <<cfg, extVars, started, listenVars, statsVars, reqVars, faults, ret, rounds>>

\* ------------------------------------------------------------------------
\* Specifications.

ListenConfigs ==
    [UDPListenAddr : BOOLEAN, TCPListenAddr : BOOLEAN, TLSListenAddr : BOOLEAN,
     HTTPSListenAddr : BOOLEAN, TLSConfig : BOOLEAN]

\* A custom handler replaces Resolve, the only user of the cache and of the
\* fallback, so it is combined with neither.
PipelineConfigs ==
    {q \in [Ratelimit : {0, 1}, RefuseAny : BOOLEAN, CacheEnabled : BOOLEAN,
            Fallback : BOOLEAN, Handler : BOOLEAN] :
       q.Handler => ~q.CacheEnabled /\ ~q.Fallback}

MakeConfig(l, n, q) ==
    [UDPListenAddr |-> l.UDPListenAddr, TCPListenAddr |-> l.TCPListenAddr,
     TLSListenAddr |-> l.TLSListenAddr, HTTPSListenAddr |-> l.HTTPSListenAddr,
     TLSConfig |-> l.TLSConfig, Upstreams |-> n, Ratelimit |-> q.Ratelimit,
     RefuseAny |-> q.RefuseAny, CacheEnabled |-> q.CacheEnabled,
     Fallback |-> q.Fallback, Handler |-> q.Handler]

AllListeners ==
    [UDPListenAddr |-> TRUE, TCPListenAddr |-> TRUE, TLSListenAddr |-> TRUE,
     HTTPSListenAddr |-> TRUE, TLSConfig |-> TRUE]

PlainPipeline ==
    [Ratelimit |-> 0, RefuseAny |-> FALSE, CacheEnabled |-> FALSE,
     Fallback |-> FALSE, Handler |-> FALSE]

\* A connection task that has not accepted a connection.
NoConn == [state |-> "none", proto |-> Nil, inbox |-> <<>>, sent |-> 0, read |-> 0]

\* A proxy value as constructed, before Start, with the given request tasks.
Constructed(tasks) ==
    /\ started = FALSE
    /\ udpListen = FALSE /\ tcpListen = FALSE /\ tlsListen = FALSE
    /\ httpsListen = FALSE /\ httpsServer = FALSE
    /\ openSockets = [p \in Protos |-> 0]
    /\ cache = NilRef
    /\ upstreamsRtt = <<>> /\ upstreamsWeighted = <<>>
    /\ ratelimitBuckets = [a \in ClientIPs |-> cfg.Ratelimit]
    /\ ctx = [r \in tasks |-> IdleCtx]
    /\ served = 0
    /\ rounds = [i \in Upstreams |-> 0]
    /\ ret = [op |-> "none", err |-> Nil]
    /\ conns = [c \in tasks |-> NoConn]
    /\ httpResp = NilRef
    /\ nat64 = NilRef
    /\ dns64 = NilRef
    /\ mu = [writer |-> {}, readers |-> {}]
    /\ rttLock = {}
    /\ task = [t \in Tasks |-> IF t = Caller THEN [NoTask EXCEPT !.pc = "idle"] ELSE NoTask]
    /\ sockGen = 0

\* The pipeline: every listener configured, any pipeline configuration, a
\* fault-free socket layer, one request task.
Init ==
    /\ cfg \in {MakeConfig(AllListeners, n, q) : n \in {1, 2}, q \in PipelineConfigs}
    /\ faults = 0
    /\ Constructed({1})

Next ==
    \/ Start
    \/ Stop
    \/ Tick
    \/ CacheExpire
    \/ \E r \in Reqs, proto \in Protos, req \in Requests, addr \in ClientIPs :
         handleDNSRequest(r, proto, req, addr)
    \/ \E r \in Reqs : ExchangeReturn(r)
    \/ \E r \in Reqs : FallbackReturn(r)
    \/ \E r \in Reqs : HandlerReturn(r)
    \/ \E r \in Reqs : respond(r)
    \/ \E r \in Reqs : EmitEvent(r)

Spec == Init /\ [][Next]_vars

\* The lifecycle: any listen configuration and upstream count, socket faults.
InitLifecycle ==
    /\ cfg \in {MakeConfig(l, n, PlainPipeline) : l \in ListenConfigs, n \in {0, 1, 2}}
    /\ faults = MaxFaults
    /\ Constructed({})

NextLifecycle ==
    \/ Start
    \/ Stop

SpecLifecycle == InitLifecycle /\ [][NextLifecycle]_vars

\* Two TCP or TLS connections served at the same time.
InitTCP ==
    /\ cfg = MakeConfig(AllListeners, 1, PlainPipeline)
    /\ faults = 0
    /\ Constructed({1, 2})

NextTCP ==
    \/ Start
    \/ Stop
    \/ \E c \in Reqs, proto \in Protos : TCPAccept(c, proto)
    \/ \E c \in Reqs, q \in {<<TypeA>>, <<>>}, unpacks \in BOOLEAN : TCPSend(c, q, unpacks)
    \/ \E c \in Reqs : handleTCPConnection(c)
    \/ \E r \in Reqs : ExchangeReturn(r)
    \/ \E r \in Reqs : respond(r)
    \/ \E r \in Reqs : EmitEvent(r)

SpecTCP == InitTCP /\ [][NextTCP]_vars

\* The wire form of a query with the ID 4660 and one question for the root
\* name, of the type with the given low byte.
WireQuery(qtype) == <<18, 52, 0, 0, 0, 1, 0, 0, 0, 0, 0, 0, 0, 0, qtype, 0, 1>>

\* Values of the dns parameter: missing or empty, a single character, padded,
\* of the standard alphabet, three bytes, a header announcing a question that
\* is missing, a header alone, a query of type A, a query of type ANY.
DnsParams ==
    {<<>>, <<"A">>, <<"A", "A", "=", "=">>, <<"A", "A", "+", "/">>,
     <<"A", "A", "A", "A">>,
     <<"E", "j", "Q", "A", "A", "A", "A", "B", "A", "A", "A", "A", "A", "A", "A", "A">>,
     <<"E", "j", "Q", "A", "A", "A", "A", "A", "A", "A", "A", "A", "A", "A", "A", "A">>,
     <<"E", "j", "Q", "A", "A", "A", "A", "B", "A", "A", "A", "A", "A", "A", "A", "A",
       "A", "A", "A", "B", "A", "A", "E">>,
     <<"E", "j", "Q", "A", "A", "A", "A", "B", "A", "A", "A", "A", "A", "A", "A", "A",
       "A", "A", "D", "_", "A", "A", "E">>}

\* The dns parameter of a query of type A.
DnsQueryA ==
    <<"E", "j", "Q", "A", "A", "A", "A", "B", "A", "A", "A", "A", "A", "A", "A", "A",
      "A", "A", "A", "B", "A", "A", "E">>

\* Remote addresses of HTTP requests: an IP host, a host that is not an IP, a
\* port that is not a number.
RemoteAddrs ==
    {[host |-> "192.0.2.7", port |-> "4000"], [host |-> "localhost", port |-> "53"],
     [host |-> "192.0.2.7", port |-> "http"]}

\* Bodies: one that cannot be read, an empty one, three bytes, a truncated
\* query, a query of type A, a query of type ANY.
Bodies ==
    {[readable |-> FALSE, bytes |-> <<>>]}
    \cup {[readable |-> TRUE, bytes |-> b] :
            b \in {<<>>, <<1, 2, 3>>, SubSeq(WireQuery(1), 1, 14),
                   WireQuery(1), WireQuery(255)}}

\* The HTTP requests a client may send: a GET with a dns parameter, a POST
\* with a content type and a body, a PUT.
HTTPRequests ==
    {[Method |-> "GET", ContentType |-> "", Dns |-> p,
      Body |-> [readable |-> TRUE, bytes |-> <<>>],
      RemoteAddr |-> [host |-> "192.0.2.7", port |-> "4000"]] : p \in DnsParams}
    \cup
    {[Method |-> "GET", ContentType |-> "", Dns |-> DnsQueryA,
      Body |-> [readable |-> TRUE, bytes |-> <<>>],
      RemoteAddr |-> ra] : ra \in RemoteAddrs}
    \cup
    {[Method |-> "POST", ContentType |-> ct, Dns |-> <<>>, Body |-> b,
      RemoteAddr |-> [host |-> "192.0.2.7", port |-> "4000"]] :
       ct \in {"text/plain", "application/dns-message"}, b \in Bodies}
    \cup
    {[Method |-> "PUT", ContentType |-> "application/dns-message", Dns |-> <<>>,
      Body |-> [readable |-> TRUE, bytes |-> WireQuery(1)],
      RemoteAddr |-> [host |-> "192.0.2.7", port |-> "4000"]]}

\* DNS over HTTPS: one task of the HTTPS server, with and without RefuseAny.
InitHTTP ==
    /\ cfg \in {MakeConfig(AllListeners, 1, [PlainPipeline EXCEPT !.RefuseAny = b]) :
                 b \in BOOLEAN}
    /\ faults = 0
    /\ Constructed({1})

NextHTTP ==
    \/ Start
    \/ Stop
    \/ \E r \in Reqs, h \in HTTPRequests : ServeHTTP(r, h)
    \/ \E r \in Reqs : ExchangeReturn(r)
    \/ \E r \in Reqs : respond(r)
    \/ \E r \in Reqs : EmitEvent(r)

SpecHTTP == InitHTTP /\ [][NextHTTP]_vars

\* NAT64 prefixes: 64:ff9b::/96 and 2001:67c:27e4:1064::/96.
Prefixes ==
    {<<0, 100, 255, 155, 0, 0, 0, 0, 0, 0, 0, 0>>,
     <<32, 1, 6, 124, 39, 228, 16, 100, 0, 0, 0, 0>>}

\* What a candidate answers for ipv4only.arpa: nothing, or the AAAA of
\* 192.0.0.170 under its prefix.
CandidateAnswers == {<<>>} \cup {<<pfx \o <<192, 0, 0, 170>>>> : pfx \in Prefixes}

\* The candidate lists of a discovery.
CandidateLists ==
    UNION {[1 .. n -> CandidateAnswers] : n \in 1 .. MaxCandidates}

\* The A addresses the sibling query may return.
AAddresses == {<<8, 8, 8, 8>>, <<192, 0, 2, 1>>}

\* DNS64: prefix discovery over any candidate list, then synthesis.
InitDNS64 ==
    /\ cfg = MakeConfig(AllListeners, 1, PlainPipeline)
    /\ faults = 0
    /\ Constructed({})

NextDNS64 ==
    \/ \E cands \in CandidateLists : getNAT64PrefixParallel(cands)
    \/ \E i \in 1 .. MaxCandidates : ProbeReturn(i)
    \/ CoordinatorReceive
    \/ \E a \in AAddresses : Synthesize(a)

SpecDNS64 == InitDNS64 /\ [][NextDNS64]_vars

\* The steps the scheduler takes for the goroutine t once they are possible.
TaskStep(t) ==
    \/ Lock(t)
    \/ StartInit(t)
    \/ StartReturn(t)
    \/ StopReturn(t)
    \/ AddrRLock(t)
    \/ AddrReturn(t)
    \/ LoopRLock(t)
    \/ LoopCheckStarted(t)
    \/ udpPacketLoopClosed(t)
    \/ chooseUpstreamLocked(t)
    \/ ExchangeDone(t)
    \/ RecordLock(t)
    \/ RecordUnlock(t)

\* Locking: UDP and TCP listeners, two upstreams, no socket faults.
InitLock ==
    /\ cfg = MakeConfig([AllListeners EXCEPT !.TLSListenAddr = FALSE,
                                             !.HTTPSListenAddr = FALSE], 2, PlainPipeline)
    /\ faults = 0
    /\ Constructed({})

NextLock ==
    \/ \E op \in {"Start", "Stop", "Addr"} : Call(op)
    \/ \E t \in Tasks : Lock(t)
    \/ \E t \in Tasks : StartInit(t)
    \/ \E t \in Tasks : StartReturn(t)
    \/ \E t \in Tasks : StopReturn(t)
    \/ \E t \in Tasks : AddrRLock(t)
    \/ \E t \in Tasks : AddrReturn(t)
    \/ \E t \in Tasks : LoopRLock(t)
    \/ \E t \in Tasks : LoopCheckStarted(t)
    \/ \E t \in Tasks, h \in Tasks : udpPacketLoopRead(t, h)
    \/ \E t \in Tasks : udpPacketLoopClosed(t)
    \/ \E t \in Tasks : tcpPacketLoopAccept(t)
    \/ \E t \in Tasks, ok \in BOOLEAN : handleTCPConnectionRead(t, ok)
    \/ \E t \in Tasks : chooseUpstreamLocked(t)
    \/ \E t \in Tasks : ExchangeDone(t)
    \/ \E t \in Tasks : RecordLock(t)
    \/ \E t \in Tasks : RecordUnlock(t)

SpecLock == InitLock /\ [][NextLock]_vars

\* The same with the scheduler running every goroutine that can take a step;
\* no datagram, connection, request or call has to arrive.
SpecLockFair == SpecLock /\ \A t \in Tasks : WF_vars(TaskStep(t))

\* The selector alone: after Start, round trips of any upstream are recorded
\* and upstreams are chosen.
SelectorRtts == {IntOf(0), IntOf(1), IntOf(10), IntOf(200), defaultTimeout}

RECURSIVE SumRounds(_)
SumRounds(n) == IF n = 0 THEN 0 ELSE SumRounds(n - 1) + rounds[n - 1]

Record(idx, rtt, limit) ==
    /\ started
    /\ limit
    /\ calculateUpstreamWeights(idx, rtt)
    /\ rounds' = [rounds EXCEPT ![idx] = @ + 1]
    /\ ret' = [op |-> "record", err |-> Nil, idx |-> idx, rtt |-> rtt]
    /\ UNCHANGED <<cfg, extVars, started, listenVars, cache, reqVars, faults>>

RecordAny ==
    \E idx \in Upstreams, rtt \in SelectorRtts :
      Record(idx, rtt, SumRounds(cfg.Upstreams) < MaxRecords)

Choose ==
    /\ started
    /\ \E idx \in chooseUpstream :
         ret' = [op |-> "choose", err |-> Nil, idx |-> idx,
                 upstream |-> [Address |-> idx]]
    /\ UNCHANGED <<cfg, extVars, proxyVars, reqVars, faults, rounds>>

InitSelector ==
    /\ cfg \in {MakeConfig(AllListeners, n, PlainPipeline) : n \in {1, 2, 3}}
    /\ faults = 0
    /\ Constructed({})

NextSelector ==
    \/ Start
    \/ RecordAny
    \/ Choose

SpecSelector == InitSelector /\ [][NextSelector]_vars

\* Selector feedback: upstream 0 answers in 10 ms, upstream 1 in 200 ms.
RecordFast == Record(0, IntOf(10), rounds[0] < FeedbackRounds)
RecordSlow == Record(1, IntOf(200), rounds[1] < FeedbackRounds)

InitFeedback ==
    /\ cfg = MakeConfig(AllListeners, 2, PlainPipeline)
    /\ faults = 0
    /\ Constructed({})

NextFeedback ==
    \/ Start
    \/ RecordFast
    \/ RecordSlow

SpecFeedback == InitFeedback /\ [][NextFeedback]_vars

\* ------------------------------------------------------------------------
\* Properties.

\* A request task that has accepted a request.
Active(d) == d.pc # "idle"

\* A small Go int as a number.
ToNat(a) == a.hi * Millisecond + a.lo

\* C1: Stop on a proxy that is not started returns nil and changes nothing of
\* the proxy; a Stop that returns nil leaves the proxy not started, so the
\* next Stop is such a call; and a Stop on a started proxy whose closes all
\* succeed returns nil.
StopIdempotent ==
    [][ret'.op = "Stop" =>
         /\ ~started => (ret'.err = Nil /\ UNCHANGED <<cfg, proxyVars, reqVars>>)
         /\ ret'.err = Nil => ~started'
         /\ (started /\ faults' = faults) => ret'.err = Nil]_vars

\* C1 witness: Stop returned nil on a proxy that was never started (a Start
\* had failed after binding UDP, which a Stop of a started proxy closes).
StopIdempotentWitness ==
    ret.op = "Stop" /\ ret.err = Nil /\ ~started /\ udpListen

\* The configurations C2 names: no listen address at all, TLS or HTTPS without
\* a TLS config, no upstream.
ConfigError ==
    \/ ~(cfg.UDPListenAddr \/ cfg.TCPListenAddr \/ cfg.TLSListenAddr
         \/ cfg.HTTPSListenAddr)
    \/ (cfg.TLSListenAddr \/ cfg.HTTPSListenAddr) /\ ~cfg.TLSConfig
    \/ cfg.Upstreams = 0

\* C2: Start with a configuration error returns an error and leaves the proxy
\* not started, without a listener and without stats vectors; Start on a
\* started proxy returns an error and leaves started, the listeners, the
\* cache and the stats vectors as they were.
StartRejects ==
    [][ret'.op = "Start" =>
         /\ ConfigError =>
              /\ ret'.err # Nil
              /\ ~started'
              /\ ~(udpListen' \/ tcpListen' \/ tlsListen' \/ httpsListen' \/ httpsServer')
              /\ \A p \in Protos : openSockets'[p] = 0
              /\ DOMAIN upstreamsRtt' = {} /\ DOMAIN upstreamsWeighted' = {}
              /\ UNCHANGED <<listenVars, cache, statsVars>>
         /\ started =>
              /\ ret'.err # Nil
              /\ started'
              /\ UNCHANGED <<listenVars, cache, statsVars>>]_vars

\* C2 witness: Start has rejected a configuration with listeners and no
\* upstream.
StartRejectsWitness ==
    /\ ret.op = "Start" /\ ret.err = "no upstreams specified"
    /\ cfg.Upstreams = 0 /\ cfg.UDPListenAddr /\ ~started

QuestionCountServfail ==
    \A r \in Reqs :
      (/\ ctx[r].pc \in {"emit", "done"}
       /\ ~ctx[r].limited
       /\ Len(ctx[r].Req.Question) # 1)
      => /\ ctx[r].written # NilRef
         /\ ctx[r].written.Rcode = RcodeServerFailure
         /\ ctx[r].written.RecursionAvailable
         /\ ctx[r].written.Id = ctx[r].Req.Id
         /\ ctx[r].exchanges = 0 /\ ctx[r].fallbacks = 0

\* The request of d is one that RefuseAny refuses.
AnyRefused(d) ==
    /\ Active(d) /\ ~d.limited
    /\ cfg.RefuseAny /\ Len(d.Req.Question) > 0 /\ d.Req.Question[1] = TypeANY

\* C5: with RefuseAny, a request that is not rate-limited and asks for ANY has
\* the response NOTIMPL with RecursionAvailable and EDNS0 (UDP size 1452, DO
\* off); no upstream is chosen or contacted for it, the cache is not read or
\* written, and no step of its task changes the cache, the rtt or the weights.
RefuseAnyNotImpl ==
    [][\A r \in Reqs :
         AnyRefused(ctx'[r]) =>
           /\ ctx'[r].Res # NilRef
           /\ ctx'[r].Res.Rcode = RcodeNotImplemented
           /\ ctx'[r].Res.RecursionAvailable
           /\ ctx'[r].Res.Id = ctx'[r].Req.Id
           /\ ctx'[r].Res.Edns0 = [UDPSize |-> 1452, DO |-> FALSE]
           /\ ctx'[r].pc \in {"emit", "done"} => ctx'[r].written = ctx'[r].Res
           /\ ctx'[r].Upstream = NilRef /\ ctx'[r].chosen = 0
           /\ ctx'[r].exchanges = 0 /\ ctx'[r].fallbacks = 0
           /\ ctx'[r].cacheGets = 0 /\ ctx'[r].cacheSets = 0
           /\ ctx'[r].records = 0
           /\ ctx'[r] # ctx[r] => UNCHANGED <<cache, statsVars>>]_vars

\* C5 witness: an ANY request has been answered NOTIMPL over UDP.
RefuseAnyNotImplWitness ==
    \E r \in Reqs :
      /\ AnyRefused(ctx[r]) /\ ctx[r].pc = "done" /\ ctx[r].Proto = ProtoUDP
      /\ ctx[r].written # NilRef /\ ctx[r].written.Rcode = RcodeNotImplemented

\* C6: a rate-limited request is a UDP request that ends in silence (no
\* response, no upstream chosen or contacted, no cache access, no event, cache
\* and stats unchanged); a request on another transport is never rate-limited
\* and leaves the limiter's buckets alone.
RatelimitOnlyUDP ==
    [][\A r \in Reqs :
         ctx'[r] # ctx[r] =>
           /\ ctx'[r].limited =>
                /\ ctx'[r].Proto = ProtoUDP
                /\ ctx'[r].pc = "done"
                /\ ctx'[r].Res = NilRef /\ ctx'[r].written = NilRef
                /\ ctx'[r].responds = 0 /\ ctx'[r].events = 0
                /\ ctx'[r].Upstream = NilRef /\ ctx'[r].chosen = 0
                /\ ctx'[r].exchanges = 0 /\ ctx'[r].fallbacks = 0
                /\ ctx'[r].cacheGets = 0 /\ ctx'[r].cacheSets = 0
                /\ ctx'[r].records = 0
                /\ UNCHANGED <<cache, statsVars>>
           /\ (Active(ctx'[r]) /\ ctx'[r].Proto # ProtoUDP) =>
                /\ ~ctx'[r].limited
                /\ ratelimitBuckets' = ratelimitBuckets]_vars

\* C6 witness: a UDP request was dropped by the limiter.
RatelimitOnlyUDPWitness ==
    \E r \in Reqs :
      ctx[r].limited /\ ctx[r].Proto = ProtoUDP /\ ctx[r].pc = "done"

\* C7: with the default resolver, a request that is not rate-limited comes to
\* respond with a response, which is handed once to the respond function of
\* its transport; when no reply was obtained the response is SERVFAIL for the
\* request.
DefaultResolverResponds ==
    \A r \in Reqs :
      (~cfg.Handler /\ ~ctx[r].limited /\ ctx[r].pc \in {"respond", "emit", "done"})
      => /\ ctx[r].Res # NilRef
         /\ ctx[r].pc = "respond" => ctx[r].responds = 0
         /\ ctx[r].pc \in {"emit", "done"} =>
              /\ ctx[r].responds = 1
              /\ ctx[r].written = ctx[r].Res
              /\ ctx[r].via = (CASE ctx[r].Proto = ProtoUDP -> "respondUDP"
                                 [] ctx[r].Proto = ProtoHTTPS -> "respondHTTPS"
                                 [] OTHER -> "respondTCP")
         /\ (ctx[r].exchanges > 0 /\ ctx[r].reply = NilRef) =>
              /\ ctx[r].Res.Rcode = RcodeServerFailure
              /\ ctx[r].Res.Id = ctx[r].Req.Id
              /\ ctx[r].Res.Question = ctx[r].Req.Question
         /\ ctx[r].reply # NilRef => ctx[r].Res = ctx[r].reply

\* C7 witness: the primary failed without a reply, no fallback is configured,
\* and SERVFAIL was written.
DefaultResolverRespondsWitness ==
    \E r \in Reqs :
      /\ ~cfg.Handler /\ ~cfg.Fallback /\ ctx[r].pc = "done"
      /\ ctx[r].exchanges = 1 /\ ctx[r].primaryErr # Nil /\ ctx[r].reply = NilRef
      /\ ctx[r].written # NilRef /\ ctx[r].written.Rcode = RcodeServerFailure

\* C8: when the primary exchange returned an error and a fallback is
\* configured, the fallback is exchanged once with the request and its reply
\* and error are the outcome (its reply the response, SERVFAIL without one);
\* otherwise the fallback is not exchanged.
FallbackRetry ==
    \A r \in Reqs :
      /\ ctx[r].pc = "fallback" =>
           (ctx[r].primaryErr # Nil /\ cfg.Fallback /\ ctx[r].fallbacks = 0)
      /\ (~cfg.Handler /\ ctx[r].exchanges = 1
          /\ ctx[r].pc \in {"respond", "emit", "done"}) =>
           IF ctx[r].primaryErr # Nil /\ cfg.Fallback
             THEN /\ ctx[r].fallbacks = 1
                  /\ ctx[r].fallbackReq = ctx[r].Req
                  /\ ctx[r].err = ctx[r].fallback.err
                  /\ ctx[r].fallback.reply # NilRef =>
                       ctx[r].Res = ctx[r].fallback.reply
                  /\ (ctx[r].fallback.reply # NilRef /\ ctx[r].fallback.err = Nil) =>
                       ctx[r].err = Nil
                  /\ ctx[r].fallback.reply = NilRef =>
                       ctx[r].Res.Rcode = RcodeServerFailure
                  /\ (ctx[r].fallback.reply = NilRef /\ ctx[r].fallback.err # Nil) =>
                       ctx[r].err # Nil
             ELSE ctx[r].fallbacks = 0 /\ ctx[r].fallback = NilRef

\* C8 witness: the primary failed and the fallback's reply was written, with
\* no error returned.
FallbackRetryWitness ==
    \E r \in Reqs :
      /\ ctx[r].pc = "done" /\ ctx[r].primaryErr # Nil /\ ctx[r].fallbacks = 1
      /\ ctx[r].written # NilRef /\ ctx[r].written.From = "fallback"
      /\ ctx[r].err = Nil

\* The sum of the rtt vector.
RttSum == SumRtt(upstreamsRtt, cfg.Upstreams)

\* C9 as stated: after record(i, r), 1 <= weight[i] <= sum - rtt[i], and
\* weight[i] = 1 iff rtt[i] >= sum.
WeightInInterval ==
    ret.op = "record" =>
      LET w == upstreamsWeighted[ret.idx].Weight
          rtt == upstreamsRtt[ret.idx]
      IN  /\ IntLeq(One, w)
          /\ IntLeq(IntAdd(w, rtt), RttSum)
          /\ (w = One) <=> IntLeq(RttSum, rtt)

\* C9 amended: after record(i, r), weight[i] = max(1, sum - rtt[i]): it is at
\* least 1, it is sum - rtt[i] when that difference is at least 1, and it is
\* 1 iff the difference is at most 1.
WeightClamped ==
    ret.op = "record" =>
      LET w == upstreamsWeighted[ret.idx].Weight
          rtt == upstreamsRtt[ret.idx]
      IN  /\ IntLeq(One, w)
          /\ IntLeq(IntAdd(rtt, One), RttSum) => IntAdd(w, rtt) = RttSum
          /\ (w = One) <=> IntLeq(RttSum, IntAdd(rtt, One))

\* C9 witness: a round trip was recorded on an upstream whose weight is 1
\* although its rtt is below the sum.
WeightClampedWitness ==
    /\ ret.op = "record"
    /\ upstreamsWeighted[ret.idx].Weight = One
    /\ IntLess(upstreamsRtt[ret.idx], RttSum)

\* C10: after 50 records of 10 ms for upstream 0 and 50 of 200 ms for upstream
\* 1, in any order, weight[0] / (weight[0] + weight[1]) > 0.85.
FeedbackFavoursFast ==
    (rounds[0] = FeedbackRounds /\ rounds[1] = FeedbackRounds) =>
      LET w0 == ToNat(upstreamsWeighted[0].Weight)
          w1 == ToNat(upstreamsWeighted[1].Weight)
      IN  100 * w0 > 85 * (w0 + w1)

\* C10 witness: both upstreams have their 50 records.
FeedbackFavoursFastWitness ==
    /\ started
    /\ rounds[0] = FeedbackRounds /\ rounds[1] = FeedbackRounds
    /\ upstreamsRtt[0] = IntOf(10) /\ upstreamsRtt[1] = IntOf(200)

\* C11: once started, the rtt vector and the weight vector have one entry per
\* upstream, every weight is at least 1, weight entry j designates upstream j,
\* and chooseUpstream returns an index of an upstream with that upstream
\* (index 0 when there is one upstream).
SelectorWellFormed ==
    started =>
      /\ DOMAIN upstreamsRtt = Upstreams
      /\ DOMAIN upstreamsWeighted = Upstreams
      /\ Cardinality(DOMAIN upstreamsRtt) = cfg.Upstreams
      /\ \A j \in Upstreams :
           /\ IntLeq(One, upstreamsWeighted[j].Weight)
           /\ upstreamsWeighted[j].Item = j
      /\ chooseUpstream # {} /\ chooseUpstream \subseteq Upstreams
      /\ cfg.Upstreams = 1 => chooseUpstream = {0}
      /\ ret.op = "choose" =>
           /\ ret.idx \in 0 .. (cfg.Upstreams - 1)
           /\ ret.upstream = [Address |-> ret.idx]

\* C11 witness: an upstream that failed (its rtt is at least the timeout) and
\* has weight 1 among several upstreams was the one chosen.
SelectorWellFormedWitness ==
    /\ started /\ cfg.Upstreams = 3 /\ ret.op = "choose"
    /\ upstreamsWeighted[ret.idx].Weight = One
    /\ upstreamsRtt[ret.idx] = defaultTimeout

\* C12: on a TCP or TLS connection the handler reads the oldest unread
\* request, and reads request k+1 only when the pipeline for request k has
\* returned with the response to request k written, once.
TCPSerial ==
    [][\A c \in DOMAIN conns :
         conns'[c].read = conns[c].read + 1 =>
           /\ conns[c].proto \in {ProtoTCP, ProtoTLS}
           /\ ctx'[c].Proto = conns[c].proto
           /\ ctx'[c].Req = Head(conns[c].inbox)
           /\ \A i \in 1 .. Len(conns'[c].inbox) :
                conns'[c].inbox[i] # NilRef => conns'[c].inbox[i].Id > ctx'[c].Req.Id
           /\ conns[c].read > 0 =>
                /\ ctx[c].pc = "done"
                /\ ctx[c].Req.Id < ctx'[c].Req.Id
                /\ ctx[c].responds = 1
                /\ ctx[c].written # NilRef
                /\ ctx[c].written.Id = ctx[c].Req.Id]_vars

\* C12 witness: the second request of a TLS connection was answered after the
\* first.
TCPSerialWitness ==
    \E c \in DOMAIN conns :
      /\ conns[c].proto = ProtoTLS /\ conns[c].read = 2
      /\ ctx[c].pc = "done" /\ ctx[c].written # NilRef
      /\ ctx[c].written.Id = ctx[c].Req.Id

\* The dns parameter is valid unpadded base64url: characters of the URL-safe
\* alphabet only, and not a single character left over after groups of four.
ValidRawURL(str) ==
    /\ \A i \in 1 .. Len(str) : \E j \in 1 .. 64 : B64Alphabet[j] = str[i]
    /\ Len(str) % 4 # 1

\* The bytes the request h carries for the DNS message.
CarriedBytes(h) == IF h.Method = "GET" THEN B64Decode(h.Dns).buf ELSE h.Body.bytes

\* The status C13 gives for the HTTP request h, 0 for a request passing all
\* checks.
ExpectedStatus(h) ==
    IF h.Method \notin {"GET", "POST"} THEN 405
    ELSE IF h.Method = "POST" /\ h.ContentType # "application/dns-message" THEN 415
    ELSE IF h.Method = "GET" /\ (h.Dns = <<>> \/ ~ValidRawURL(h.Dns)) THEN 400
    ELSE IF h.Method = "POST" /\ (~h.Body.readable \/ h.Body.bytes = <<>>) THEN 400
    ELSE IF Unpack(CarriedBytes(h)) = NilRef THEN 400
    ELSE 0

\* C13: an HTTP request failing a check gets the status of that check (405,
\* 415, 400) and the step of ServeHTTP that answers it leaves every request
\* context, the cache and the selector alone; a context built by ServeHTTP is
\* of a request passing all checks, with transport HTTPS, no connection and
\* the unpacked message.
DoHValidation ==
    [][/\ httpResp' # httpResp =>
            /\ ExpectedStatus(httpResp'.req) # 0
            /\ httpResp'.status = ExpectedStatus(httpResp'.req)
            /\ UNCHANGED <<ctx, served, cache, statsVars>>
       /\ \A r \in Reqs :
            (ctx'[r] # ctx[r] /\ ctx[r].pc \in {"idle", "done"}) =>
              /\ ctx'[r].HTTPRequest # NilRef
              /\ ExpectedStatus(ctx'[r].HTTPRequest) = 0
              /\ ctx'[r].Proto = ProtoHTTPS
              /\ ~ctx'[r].Conn
              /\ ctx'[r].Req = Unpack(CarriedBytes(ctx'[r].HTTPRequest))
              /\ httpResp' = httpResp]_vars

\* C13 witness: a POST with a type that is not application/dns-message got
\* 415 after a GET with a query of type A was answered through the pipeline.
DoHValidationWitness ==
    /\ httpResp # NilRef /\ httpResp.status = 415
    /\ httpResp.req.Body.bytes = WireQuery(1)
    /\ \E r \in Reqs :
         /\ ctx[r].pc = "done" /\ ctx[r].Proto = ProtoHTTPS
         /\ ctx[r].HTTPRequest.Method = "GET"
         /\ ctx[r].Req = [Id |-> 4660, Question |-> <<TypeA>>]
         /\ ctx[r].via = "respondHTTPS"

\* The request tasks that are inside an upstream exchange, primary or fallback.
Exchanging == {r \in Reqs : ctx[r].pc \in {"exchanging", "fallback"}}

\* C14: the upstream exchanges in progress at the same time are never more
\* than the configured bound.
ExchangesBounded == Cardinality(Exchanging) <= MaxGoroutines

\* Candidate i of the discovery answers with a synthesized AAAA.
ProbeSucceeds(i) == nat64.cands[i] # <<>>

\* C15: all probes are started at once; a returned prefix is the 12-byte
\* prefix of a probe that succeeded, the first successful one in the order the
\* probes returned; an error is returned, without prefix, only when every
\* probe has failed; and while nothing is returned, a probe is still running
\* or its result not yet received, all received ones being failures.
Nat64Coordinator ==
    nat64 # NilRef =>
      /\ DOMAIN nat64.probe = 1 .. Len(nat64.cands)
      /\ (nat64.completed = <<>> /\ nat64.recvd = 0) =>
           \A i \in DOMAIN nat64.probe : nat64.probe[i] = "running"
      /\ (nat64.result # NilRef /\ nat64.result.err = Nil) =>
           \E k \in 1 .. Len(nat64.completed) :
             /\ ProbeSucceeds(nat64.completed[k])
             /\ \A j \in 1 .. (k - 1) : ~ProbeSucceeds(nat64.completed[j])
             /\ Len(nat64.result.prefix) = 12
             /\ nat64.result.prefix = SubSeq(nat64.cands[nat64.completed[k]][1], 1, 12)
      /\ (nat64.result # NilRef /\ nat64.result.err # Nil) =>
           /\ \A i \in 1 .. Len(nat64.cands) : ~ProbeSucceeds(i)
           /\ nat64.result.prefix = <<>>
      /\ nat64.result = NilRef =>
           /\ nat64.recvd < Len(nat64.cands)
           /\ \A j \in 1 .. nat64.recvd : ~ProbeSucceeds(nat64.completed[j])

\* C15 witness: the prefix of the third candidate was returned although the
\* probe of the first candidate had failed before.
Nat64CoordinatorWitness ==
    /\ nat64 # NilRef /\ nat64.result # NilRef /\ nat64.result.err = Nil
    /\ Len(nat64.cands) = 3 /\ nat64.completed[1] = 1 /\ ~ProbeSucceeds(1)
    /\ nat64.completed[2] = 3
    /\ nat64.result.prefix = SubSeq(nat64.cands[3][1], 1, 12)

RecordFormula ==
    [][rounds' # rounds =>
         LET i == ret'.idx
             m == ret'.rtt
             q == upstreamsRtt'[i]
             S == SumRtt(upstreamsRtt', cfg.Upstreams)
         IN  /\ ret'.op = "record"
             /\ rounds' = [rounds EXCEPT ![i] = @ + 1]
             /\ upstreamsRtt[i] = Zero => q = m
             /\ upstreamsRtt[i] # Zero =>
                  /\ IntLeq(IntAdd(q, q), IntAdd(upstreamsRtt[i], m))
                  /\ IntLeq(IntAdd(upstreamsRtt[i], m), IntAdd(IntAdd(q, q), One))
             /\ DOMAIN upstreamsRtt' = DOMAIN upstreamsRtt
             /\ \A j \in Upstreams \ {i} : upstreamsRtt'[j] = upstreamsRtt[j]
             /\ DOMAIN upstreamsWeighted' = Upstreams
             /\ \A j \in Upstreams :
                  LET w == upstreamsWeighted'[j].Weight
                      r == upstreamsRtt'[j]
                  IN  /\ IntLeq(One, w)
                      /\ IntLeq(IntAdd(r, One), S) => IntAdd(w, r) = S
                      /\ IntLeq(S, IntAdd(r, One)) => w = One
    ]_vars

\* C17 witness: 10 ms were recorded on an upstream of three whose average was
\* 1 ms, giving the truncated average 5 ms, and another upstream's weight is
\* the sum without its own rtt.
RecordFormulaWitness ==
    /\ ret.op = "record" /\ cfg.Upstreams = 3
    /\ ret.rtt = IntOf(10) /\ upstreamsRtt[ret.idx] = IntOf(5)
    /\ \E j \in Upstreams \ {ret.idx} :
         /\ upstreamsRtt[j] = IntOf(200)
         /\ upstreamsWeighted[j].Weight = IntSub(RttSum, IntOf(200))

\* C18: when the primary exchange of a request has failed, the value fed to
\* the selector is 10,000 (the default timeout in milliseconds), so the rtt of
\* an upstream that had none becomes 10,000.
TimeoutInMillis ==
    \A r \in Reqs :
      (ctx[r].records = 1 /\ ctx[r].primaryErr # Nil) =>
        /\ ctx[r].rtt = IntOf(10 * MillisPerSecond)
        /\ served = 1 => upstreamsRtt[ctx[r].UpstreamIdx] = IntOf(10 * MillisPerSecond)

\* C19: the selector is fed once per primary exchange and nowhere else: the
\* step in which the primary exchange of a request returns, before any
\* fallback exchange, records one value on the index chosen for that request
\* and on no other; no other step of a running proxy changes rtt or weight,
\* the fallback's return included; and a request that ends without a primary
\* exchange has recorded nothing.
FeedbackOncePerExchange ==
    [][\A r \in Reqs :
         LET d == ctx[r]
             e == ctx'[r]
             i == d.UpstreamIdx
         IN  /\ e.exchanges # d.exchanges /\ e.exchanges # 0 =>
                  /\ d.pc = "exchanging" /\ d.chosen = 1 /\ d.fallbacks = 0
                  /\ e.exchanges = 1 /\ e.records = 1 /\ e.fallbacks = 0
                  /\ e.UpstreamIdx = i
                  /\ \A j \in Upstreams \ {i} : upstreamsRtt'[j] = upstreamsRtt[j]
                  /\ upstreamsRtt[i] = Zero => upstreamsRtt'[i] = e.rtt
                  /\ upstreamsRtt[i] # Zero =>
                       upstreamsRtt'[i] = IntHalf(IntAdd(upstreamsRtt[i], e.rtt))
             /\ e.records # d.records /\ e.records # 0 => e.exchanges = d.exchanges + 1
             /\ e.fallbacks # d.fallbacks /\ e.fallbacks # 0 =>
                  /\ d.records = 1 /\ e.records = 1
                  /\ UNCHANGED statsVars
             /\ (started /\ started'
                 /\ \A q \in Reqs : ctx'[q].exchanges = ctx[q].exchanges) =>
                  UNCHANGED statsVars
             /\ e.pc = "done" =>
                  /\ e.records = e.exchanges
                  /\ (\/ e.limited
                      \/ e.chosen = 0
                      \/ e.Res = UpstreamReply(e.Req, "cache")) =>
                       /\ e.records = 0
                       /\ started => UNCHANGED statsVars
    ]_vars

\* C19 witness: a request on the second of two upstreams ended after its
\* primary exchange failed and the fallback answered; only the second
\* upstream has a recorded rtt.
FeedbackOncePerExchangeWitness ==
    \E r \in Reqs :
      /\ ctx[r].pc = "done" /\ ctx[r].UpstreamIdx = 1
      /\ ctx[r].primaryErr # Nil /\ ctx[r].fallbacks = 1 /\ ctx[r].records = 1
      /\ served = 1 /\ started
      /\ upstreamsRtt[1] # Zero /\ upstreamsRtt[0] = Zero

\* C20: on a cache hit the response is the cached one, chooseUpstream has not
\* been called and the context's upstream is unset, no upstream and no
\* fallback was exchanged and nothing was stored in the cache.
CacheHitBeforeSelection ==
    \A r \in Reqs :
      (ctx[r].cacheGets = 1 /\ ctx[r].exchanges = 0
       /\ ctx[r].pc \in {"respond", "emit", "done"}) =>
        /\ ctx[r].Res = UpstreamReply(ctx[r].Req, "cache")
        /\ ctx[r].exchanges = 0 /\ ctx[r].fallbacks = 0 /\ ctx[r].cacheSets = 0
        /\ ctx[r].chosen = 0
        /\ ctx[r].Upstream = NilRef

\* C21: the reply of a request is stored in the cache only after the response
\* has been written: whenever the reply of a request is in the cache, that
\* request's response has been written to the client.
CacheStoreAfterWrite ==
    \A r \in Reqs :
      (/\ cache # NilRef
       /\ ctx[r].cacheSets = 1 /\ ctx[r].reply # NilRef
       /\ Len(ctx[r].reply.Question) > 0
       /\ ctx[r].reply.Question[1] \in cache.items) =>
        /\ ctx[r].responds = 1
        /\ ctx[r].written = ctx[r].reply

\* C24: Stop clears started before it closes a listener, so after a Stop that
\* returned an error from a close the proxy is not started.
StopClearsStartedFirst ==
    (ret.op = "Stop" /\ ret.err # Nil) => ~started

\* C26: no listener socket is open while the proxy is not started, and none
\* after a Stop that returned ok.
ListenersReleased ==
    /\ ~started => \A p \in Protos : openSockets[p] = 0
    /\ (ret.op = "Stop" /\ ret.err = Nil) => \A p \in Protos : openSockets[p] = 0

\* C27: the client address of a DoH request with a well-formed ip:port remote
\* address is an address with that IP and port, and a remote address whose
\* host is not an IP gives an error and no address.
RemoteAddrCarried ==
    \A r \in Reqs :
      (Active(ctx[r]) /\ ctx[r].Proto = ProtoHTTPS) =>
        LET ra == ctx[r].HTTPRequest.RemoteAddr
        IN  /\ (ra.host \in IPLiterals /\ ra.port \in DOMAIN PortNumbers) =>
                 ctx[r].Addr = [IP |-> [ip |-> ra.host], Port |-> PortNumbers[ra.port]]
            /\ ra.host \notin IPLiterals =>
                 /\ remoteAddr(ctx[r].HTTPRequest).err # Nil
                 /\ ctx[r].Addr = NilRef

\* C22: a loop that waits in a read, and a loop that has exited, does not hold
\* the proxy lock.
LoopReleasesLock ==
    \A t \in UDPLoops \cup TCPHandlers :
      task[t].pc \in {"reading", "exited"} => t \notin mu.readers

\* The tasks in the middle of reading or writing the rtt and weight vectors.
Accessing == {t \in Tasks : task[t].pc \in {"initStats", "weights"}}

\* C25: no two tasks access the rtt and weight vectors at the same time.
StatsUnderMutex == Cardinality(Accessing) <= 1

\* C23: a call of Start, Stop or Addr that waits for the proxy lock gets it
\* and returns.
RestartLiveness ==
    (task[Caller].pc \in {"lock", "rlock"}) ~> (task[Caller].pc = "idle")

====
